---- MODULE Spec2Model ----
(***************************************************************************)
(* Model of cltk/tokenize/sentence.py: the PUNCTUATION registry, the       *)
(* TokenizeSentence class (construction and tokenize_sentences) and        *)
(* open_pickle, run by a small number of threads that share the            *)
(* PunktLanguageVars class attributes and the file system.                 *)
(*                                                                         *)
(* Python values are records [type, val] with val a sequence of strings    *)
(* that each stand for one character; a str is the sequence of its         *)
(* characters.                                                             *)
(***************************************************************************)
EXTENDS Naturals, Sequences, FiniteSets, TLC

VARIABLES
    PUNCTUATION,        \* the module-level registry dict (lines 13-20)
    PunktLanguageVars,  \* class attributes of nltk's PunktLanguageVars
    fs,                 \* file system: tokenizer path -> artifact
    resolver,           \* per thread: the TokenizeSentence instance it holds
    call,               \* per thread: the call in progress or last finished
    ops_made            \* number of operations and file changes so far

vars == <<PUNCTUATION, PunktLanguageVars, fs, resolver, call, ops_made>>

-----------------------------------------------------------------------------
(* Bounds *)

\* Constructions, tokenize_sentences calls and file changes in one run.
MaxOps == 5

Threads == {"t1", "t2"}

-----------------------------------------------------------------------------
(* Python values *)

Str(s) == [type |-> "str", val |-> s]
None == [type |-> "NoneType", val |-> <<>>]
Int42 == [type |-> "int", val |-> <<"4", "2">>]

\* The character U+00B7 (Greek ano teleia as typed in the registry).
MiddleDot == "U+00B7"

Range(s) == {s[i] : i \in 1..Len(s)}

\* str.lower(), character by character.
LowerChar(c) ==
    CASE c = "G" -> "g"
      [] c = "R" -> "r"
      [] c = "E" -> "e"
      [] c = "K" -> "k"
      [] c = "L" -> "l"
      [] c = "A" -> "a"
      [] c = "T" -> "t"
      [] c = "I" -> "i"
      [] c = "N" -> "n"
      [] OTHER -> c

Lower(s) == [i \in 1..Len(s) |-> LowerChar(s[i])]

greek == <<"g", "r", "e", "e", "k">>
latin == <<"l", "a", "t", "i", "n">>

\* Language names a caller may pass to the constructor.
LanguageArgs ==
    { greek,
      <<"L", "A", "T", "I", "N">>,
      <<"k", "l", "i", "n", "g", "o", "n">> }

\* Arguments a caller may pass to tokenize_sentences.
Texts ==
    { <<>>,
      <<"a", ";", " ", "b">>,
      <<"a", ".", " ", "b", ".">> }

Arguments == {Str(s) : s \in Texts} \cup {Int42}

-----------------------------------------------------------------------------
(* The registry *)

PUNCTUATION_INIT ==
    [ l \in {greek, latin} |->
        IF l = greek
        THEN [external |-> <<".", ";">>,
              internal |-> <<",", MiddleDot>>,
              file     |-> "greek.pickle"]
        ELSE [external |-> <<".", "?", ":">>,
              internal |-> <<",", ";">>,
              file     |-> "latin.pickle"] ]

\* os.path.join(expanduser('~/cltk_data'), lang, <fixed dirs>, file)
TokenizerPath(lang, file) == [lang |-> lang, file |-> file]

NoPath == [lang |-> <<>>, file |-> ""]

Paths == {TokenizerPath(l, PUNCTUATION_INIT[l].file) : l \in {greek, latin}}

-----------------------------------------------------------------------------
(* Artifacts on the file system *)

Absent    == [kind |-> "absent",    abbrev |-> {}, starters |-> {}]
Model0    == [kind |-> "pickle",    abbrev |-> {}, starters |-> {}]
ModelA    == [kind |-> "pickle",    abbrev |-> {<<"a">>}, starters |-> {}]
Garbage   == [kind |-> "garbage",   abbrev |-> {}, starters |-> {}]
Truncated == [kind |-> "truncated", abbrev |-> {}, starters |-> {}]
NotRead   == [kind |-> "notread",   abbrev |-> {}, starters |-> {}]

Artifacts == {Absent, Model0, ModelA, Garbage, Truncated}

\* os.path.isfile(path)
isfile(files, path) == path \in DOMAIN files /\ files[path].kind # "absent"

-----------------------------------------------------------------------------
(* Outcomes of an operation *)

Pending  == [exc |-> "pending", msg |-> ""]
Returned == [exc |-> "none", msg |-> ""]
UnsupportedLanguage ==
    [exc |-> "AssertionError", msg |-> "Sentence tokenizer not available for language."]
DataNotAvailable ==
    [exc |-> "AssertionError", msg |-> "CLTK linguistics data not available."]
MustBeString ==
    [exc |-> "AssertionError", msg |-> "Incoming argument must be a string."]
SystemExit1 == [exc |-> "SystemExit", msg |-> "1"]
EOFError == [exc |-> "EOFError", msg |-> "Ran out of input"]

-----------------------------------------------------------------------------
(* TokenizeSentence._setup_language_variables and __init__ *)

\* What is at path, for the observer.
At(files, path) == IF path \in DOMAIN files THEN files[path] ELSE Absent

\* Variant: the existence check is made before the language is looked up.
SetupChecksFileFirst(registry, files, lang) ==
    LET file == IF lang \in DOMAIN registry THEN registry[lang].file ELSE ""
        tokenizer_path == TokenizerPath(lang, file)
    IN  IF lang \notin DOMAIN registry
        THEN [outcome |-> UnsupportedLanguage, checks |-> 1, seen |-> NotRead,
              ret |-> <<<<>>, <<>>, NoPath>>]
        ELSE IF ~isfile(files, tokenizer_path)
        THEN [outcome |-> DataNotAvailable, checks |-> 1,
              seen |-> At(files, tokenizer_path),
              ret |-> <<<<>>, <<>>, NoPath>>]
        ELSE [outcome |-> Returned, checks |-> 1,
              seen |-> At(files, tokenizer_path),
              ret |-> <<registry[lang].internal, registry[lang].external,
                        tokenizer_path>>]

\* Variant: the existence of the tokenizer file is not asserted.
SetupWithoutIsfile(registry, files, lang) ==
    IF lang \notin DOMAIN registry
    THEN [outcome |-> UnsupportedLanguage, checks |-> 0, seen |-> NotRead,
          ret |-> <<<<>>, <<>>, NoPath>>]
    ELSE LET tokenizer_path == TokenizerPath(lang, registry[lang].file)
         IN  [outcome |-> Returned, checks |-> 0,
              seen |-> At(files, tokenizer_path),
              ret |-> <<registry[lang].internal, registry[lang].external,
                        tokenizer_path>>]

\* Variant: the two punctuation tuples are returned in the other order.
SetupSwapped(registry, files, lang) ==
    IF lang \notin DOMAIN registry
    THEN [outcome |-> UnsupportedLanguage, checks |-> 0, seen |-> NotRead,
          ret |-> <<<<>>, <<>>, NoPath>>]
    ELSE LET tokenizer_path == TokenizerPath(lang, registry[lang].file)
         IN  IF ~isfile(files, tokenizer_path)
             THEN [outcome |-> DataNotAvailable, checks |-> 1,
                   seen |-> At(files, tokenizer_path),
                   ret |-> <<<<>>, <<>>, NoPath>>]
             ELSE [outcome |-> Returned, checks |-> 1,
                   seen |-> At(files, tokenizer_path),
                   ret |-> <<registry[lang].external, registry[lang].internal,
                             tokenizer_path>>]

\* The tuple the method returns, the outcome it ends with, the number of
\* file-existence checks it made on the way and, for the observer, the artifact
\* that was at the tokenizer path then (NotRead when no path was built).
_setup_language_variables(registry, files, lang) ==
    IF lang \notin DOMAIN registry
    THEN [outcome |-> UnsupportedLanguage, checks |-> 0, seen |-> NotRead,
          ret |-> <<<<>>, <<>>, NoPath>>]
    ELSE LET internal_punctuation == registry[lang].internal
             external_punctuation == registry[lang].external
             tokenizer_path == TokenizerPath(lang, registry[lang].file)
         IN  IF ~isfile(files, tokenizer_path)
             THEN [outcome |-> DataNotAvailable, checks |-> 1,
                   seen |-> At(files, tokenizer_path),
                   ret |-> <<<<>>, <<>>, NoPath>>]
             ELSE [outcome |-> Returned, checks |-> 1,
                   seen |-> At(files, tokenizer_path),
                   ret |-> <<internal_punctuation, external_punctuation,
                             tokenizer_path>>]

NoResolver ==
    [exists |-> FALSE, language |-> <<>>, internal_punctuation |-> <<>>,
     external_punctuation |-> <<>>, tokenizer_path |-> NoPath,
     built_on |-> NotRead]

\* __init__: the instance it builds (built_on is an observer's field: the
\* artifact that was at the tokenizer path when the instance was built).
init(registry, files, language) ==
    LET lang == Lower(language)
        r == _setup_language_variables(registry, files, lang)
    IN  [outcome |-> r.outcome, checks |-> r.checks, seen |-> r.seen,
         self |-> [exists |-> TRUE,
                   language |-> lang,
                   internal_punctuation |-> r.ret[1],
                   external_punctuation |-> r.ret[2],
                   tokenizer_path |-> r.ret[3],
                   built_on |-> r.seen]]

-----------------------------------------------------------------------------
(* open_pickle *)

\* open() raises IOError on an absent file; pickle.load raises a PickleError
\* (UnpicklingError) on garbage and EOFError on a truncated file.  The two
\* handlers print the error and call sys.exit(1); EOFError is not handled.
open_pickle(files, path) ==
    LET a == At(files, path)
    IN  CASE a.kind = "absent"    -> [outcome |-> SystemExit1, obj |-> NotRead]
          [] a.kind = "garbage"   -> [outcome |-> SystemExit1, obj |-> NotRead]
          [] a.kind = "truncated" -> [outcome |-> EOFError, obj |-> NotRead]
          [] OTHER                -> [outcome |-> Returned, obj |-> a]

-----------------------------------------------------------------------------
(* The boundary algorithm (PunktSentenceTokenizer.sentences_from_text) *)

PunctChars == {".", ";", ",", MiddleDot, "?", ":", "!"}

IsWordChar(c) == c # " " /\ c \notin PunctChars

RECURSIVE TokenBefore(_, _)
\* The word that ends at position i of text (empty when there is none).
TokenBefore(text, i) ==
    IF i < 1 \/ ~IsWordChar(text[i]) THEN <<>>
    ELSE Append(TokenBefore(text, i - 1), text[i])

RECURSIVE TokenFrom(_, _)
\* The word that starts at position i of text.
TokenFrom(text, i) ==
    IF i > Len(text) \/ ~IsWordChar(text[i]) THEN <<>>
    ELSE <<text[i]>> \o TokenFrom(text, i + 1)

RECURSIVE SkipSpaces(_, _)
SkipSpaces(text, i) ==
    IF i <= Len(text) /\ text[i] = " " THEN SkipSpaces(text, i + 1) ELSE i

\* Position i holds a terminal character, and the word before it is not a known
\* abbreviation unless a known sentence starter follows.
IsBoundary(text, i, sent_end_chars, params) ==
    /\ text[i] \in Range(sent_end_chars)
    /\ \/ TokenBefore(text, i - 1) \notin params.abbrev
       \/ TokenFrom(text, SkipSpaces(text, i + 1)) \in params.starters

RECURSIVE Strip(_)
Strip(s) ==
    IF s = <<>> THEN s
    ELSE IF Head(s) = " " THEN Strip(Tail(s))
    ELSE IF s[Len(s)] = " " THEN Strip(SubSeq(s, 1, Len(s) - 1))
    ELSE s

RECURSIVE Spans(_, _, _, _, _)
\* The sentences of text from position start on, with i the scan position.
Spans(text, start, i, sent_end_chars, params) ==
    IF i > Len(text)
    THEN LET last == Strip(SubSeq(text, start, Len(text)))
         IN  IF last = <<>> THEN <<>> ELSE <<last>>
    ELSE IF IsBoundary(text, i, sent_end_chars, params)
    THEN LET s == Strip(SubSeq(text, start, i))
         IN  (IF s = <<>> THEN <<>> ELSE <<s>>)
             \o Spans(text, i + 1, i + 1, sent_end_chars, params)
    ELSE Spans(text, start, i + 1, sent_end_chars, params)

sentences_from_text(text, sent_end_chars, params) ==
    Spans(text, 1, 1, sent_end_chars, params)

-----------------------------------------------------------------------------
(* TokenizeSentence.tokenize_sentences *)

\* Variant: the argument is tested for truth, so the empty string fails too.
IsNonEmptyStr(v) == v.type = "str" /\ v.val # <<>>

\* isinstance(untokenized_string, str)
isinstance_str(v) == v.type = "str"

\* list.append(x): the list afterwards and the value the call returns.
list_append(lst, x) == [list |-> Append(lst, x), ret |-> None]

RECURSIVE comprehension(_, _)
\* [tokenized_sentences.append(sentence) for sentence in sentences]: the list
\* of the values the append calls return.
comprehension(tokenized_sentences, sentences) ==
    IF sentences = <<>> THEN <<>>
    ELSE LET r == list_append(tokenized_sentences, Str(Head(sentences)))
         IN  <<r.ret>> \o comprehension(r.list, Tail(sentences))

\* Variant: the text is segmented before the class attributes are written.
BodyLateSetup ==
    <<"assert", "open_pickle", "sentences_from_text", "sent_end_chars",
      "internal_punctuation">>

\* Variant: the tokenizer is not read from its file in the call.
BodyWithoutRead ==
    <<"assert", "sent_end_chars", "internal_punctuation",
      "sentences_from_text">>

\* Variant: the argument is checked only before the text is segmented.
BodyLateAssert ==
    <<"open_pickle", "sent_end_chars", "internal_punctuation", "assert",
      "sentences_from_text">>

\* The statements of tokenize_sentences (with _setup_tokenizer inlined), in
\* program order; a thread is at one of them.
tokenize_sentences_body ==
    <<"assert", "open_pickle", "sent_end_chars", "internal_punctuation",
      "sentences_from_text">>

-----------------------------------------------------------------------------
(* State *)

NoIO == [checks |-> 0, reads |-> 0, writes |-> 0]

\* pc = 0: no call in progress; otherwise the index of the next statement of
\* tokenize_sentences_body.  alive = FALSE: the thread was ended by SystemExit.
\* tokenizer is what open_pickle returned to this call, seen the artifact the
\* operation found at the tokenizer path when it checked or read it, used_ext
\* and used_int the class attributes in effect when the call segmented its
\* text, and io counts the operation's file-existence checks, file reads and
\* class-attribute writes.
NoCall ==
    [op |-> "none", pc |-> 0, alive |-> TRUE, arg |-> None,
     tokenizer |-> NotRead, seen |-> NotRead,
     used_ext |-> <<>>, used_int |-> <<>>,
     outcome |-> Pending, result |-> <<>>, io |-> NoIO]

\* nltk's defaults for the two class attributes.
PunktLanguageVarsDefault ==
    [sent_end_chars |-> <<".", "?", "!">>,
     internal_punctuation |-> <<",", ":", ";">>]

Init ==
    /\ PUNCTUATION = PUNCTUATION_INIT
    /\ PunktLanguageVars = PunktLanguageVarsDefault
    /\ fs \in [Paths -> {ModelA, Garbage}]
    /\ resolver = [t \in Threads |-> NoResolver]
    /\ call = [t \in Threads |-> NoCall]
    /\ ops_made = 0

Idle(t) == call[t].alive /\ call[t].pc = 0

InCall(t) == call[t].alive /\ call[t].pc > 0

Step(t) ==
    IF InCall(t) /\ call[t].pc <= Len(tokenize_sentences_body)
    THEN tokenize_sentences_body[call[t].pc] ELSE "none"

\* Move past the current statement; past the last one the call returns.
Advance(c) ==
    IF c.pc >= Len(tokenize_sentences_body)
    THEN [c EXCEPT !.pc = 0, !.outcome = Returned]
    ELSE [c EXCEPT !.pc = @ + 1]

\* The call ends with an exception; SystemExit ends the thread.
Raise(c, outcome) ==
    [c EXCEPT !.pc = 0, !.outcome = outcome,
              !.alive = (outcome.exc # "SystemExit")]

-----------------------------------------------------------------------------
(* Actions *)

\* TokenizeSentence(language)
Construct(t, language) ==
    /\ Idle(t)
    /\ ops_made < MaxOps
    /\ LET r == init(PUNCTUATION, fs, language)
       IN  /\ resolver' = [resolver EXCEPT
                              ![t] = IF r.outcome = Returned THEN r.self ELSE @]
           /\ call' = [call EXCEPT
                          ![t] = [NoCall EXCEPT
                                     !.op = "init",
                                     !.arg = Str(language),
                                     !.outcome = r.outcome,
                                     !.seen = r.seen,
                                     !.io = [NoIO EXCEPT !.checks = r.checks]]]
    /\ ops_made' = ops_made + 1
    /\ UNCHANGED <<PUNCTUATION, PunktLanguageVars, fs>>

\* resolver.tokenize_sentences(v): the call is entered.
Call(t, v) ==
    /\ Idle(t)
    /\ resolver[t].exists
    /\ ops_made < MaxOps
    /\ call' = [call EXCEPT
                   ![t] = [NoCall EXCEPT !.op = "tokenize", !.pc = 1, !.arg = v]]
    /\ ops_made' = ops_made + 1
    /\ UNCHANGED <<PUNCTUATION, PunktLanguageVars, fs, resolver>>

\* assert isinstance(untokenized_string, str), ...
AssertIsinstance(t) ==
    /\ Step(t) = "assert"
    /\ call' = [call EXCEPT
                   ![t] = IF isinstance_str(@.arg)
                          THEN Advance(@) ELSE Raise(@, MustBeString)]
    /\ UNCHANGED <<PUNCTUATION, PunktLanguageVars, fs, resolver, ops_made>>

\* tokenizer = open_pickle(self.tokenizer_path)
OpenPickle(t) ==
    /\ Step(t) = "open_pickle"
    /\ LET r == open_pickle(fs, resolver[t].tokenizer_path)
           c == [call[t] EXCEPT
                    !.io.reads = @ + 1, !.tokenizer = r.obj,
                    !.seen = At(fs, resolver[t].tokenizer_path)]
       IN  call' = [call EXCEPT
                       ![t] = IF r.outcome = Returned
                              THEN Advance(c) ELSE Raise(c, r.outcome)]
    /\ UNCHANGED <<PUNCTUATION, PunktLanguageVars, fs, resolver, ops_made>>

\* language_punkt_vars.sent_end_chars = self.external_punctuation
SetSentEndChars(t) ==
    /\ Step(t) = "sent_end_chars"
    /\ PunktLanguageVars' =
           [PunktLanguageVars EXCEPT
               !.sent_end_chars = resolver[t].external_punctuation]
    /\ call' = [call EXCEPT ![t] = Advance([@ EXCEPT !.io.writes = @ + 1])]
    /\ UNCHANGED <<PUNCTUATION, fs, resolver, ops_made>>

\* language_punkt_vars.internal_punctuation = self.internal_punctuation
SetInternalPunctuation(t) ==
    /\ Step(t) = "internal_punctuation"
    /\ PunktLanguageVars' =
           [PunktLanguageVars EXCEPT
               !.internal_punctuation = resolver[t].internal_punctuation]
    /\ call' = [call EXCEPT ![t] = Advance([@ EXCEPT !.io.writes = @ + 1])]
    /\ UNCHANGED <<PUNCTUATION, fs, resolver, ops_made>>

\* PunktSentenceTokenizer(params).sentences_from_text(...) and the list the
\* method returns; the new tokenizer's PunktLanguageVars() instance reads the
\* class attributes as they are now.
SentencesFromText(t) ==
    /\ Step(t) = "sentences_from_text"
    /\ LET sentences == sentences_from_text(call[t].arg.val,
                                            PunktLanguageVars.sent_end_chars,
                                            call[t].tokenizer)
       IN  call' = [call EXCEPT
                       ![t] = Advance([@ EXCEPT
                                  !.used_ext = PunktLanguageVars.sent_end_chars,
                                  !.used_int = PunktLanguageVars.internal_punctuation,
                                  !.result = comprehension(<<>>, sentences)])]
    /\ UNCHANGED <<PUNCTUATION, PunktLanguageVars, fs, resolver, ops_made>>

\* The environment replaces, removes or damages an artifact file.
EnvChange(p, a) ==
    /\ ops_made < MaxOps
    /\ a # fs[p]
    /\ fs' = [fs EXCEPT ![p] = a]
    /\ ops_made' = ops_made + 1
    /\ UNCHANGED <<PUNCTUATION, PunktLanguageVars, resolver, call>>

Next ==
    \/ \E t \in Threads, language \in LanguageArgs : Construct(t, language)
    \/ \E t \in Threads, v \in Arguments : Call(t, v)
    \/ \E t \in Threads : AssertIsinstance(t)
    \/ \E t \in Threads : OpenPickle(t)
    \/ \E t \in Threads : SetSentEndChars(t)
    \/ \E t \in Threads : SetInternalPunctuation(t)
    \/ \E t \in Threads : SentencesFromText(t)
    \/ \E p \in Paths, a \in Artifacts : EnvChange(p, a)

Spec == Init /\ [][Next]_vars

\* Sequential use: an operation starts only when no other thread is inside a
\* tokenize_sentences call.
Quiescent(t) == \A u \in Threads \ {t} : ~InCall(u)

SeqConstruct(t, language) == Quiescent(t) /\ Construct(t, language)

SeqCall(t, v) == Quiescent(t) /\ Call(t, v)

SeqNext ==
    \/ \E t \in Threads, language \in LanguageArgs : SeqConstruct(t, language)
    \/ \E t \in Threads, v \in Arguments : SeqCall(t, v)
    \/ \E t \in Threads : AssertIsinstance(t)
    \/ \E t \in Threads : OpenPickle(t)
    \/ \E t \in Threads : SetSentEndChars(t)
    \/ \E t \in Threads : SetInternalPunctuation(t)
    \/ \E t \in Threads : SentencesFromText(t)
    \/ \E p \in Paths, a \in Artifacts : EnvChange(p, a)

SeqSpec == Init /\ [][SeqNext]_vars

TypeOK ==
    /\ ops_made \in 0..MaxOps
    /\ \A t \in Threads : call[t].pc \in 0..Len(tokenize_sentences_body)

-----------------------------------------------------------------------------
(* Properties *)

Finished(t, op) == call[t].op = op /\ call[t].pc = 0

\* The sentences the boundary algorithm found for the call of thread t.
SentencesFound(t) ==
    sentences_from_text(call[t].arg.val, call[t].used_ext, call[t].tokenizer)

\* C1: a tokenize_sentences call that returns, returns the sequence whose i-th
\* element is the i-th sentence string the boundary algorithm found in the text.
C1_ReturnsSentenceStrings ==
    \A t \in Threads :
        Finished(t, "tokenize") /\ call[t].outcome = Returned
        => call[t].result =
               [i \in 1..Len(SentencesFound(t)) |-> Str(SentencesFound(t)[i])]

\* C2: the terminal and internal character sets in effect while a resolver
\* segments its text are those of its own language, so none of its internal
\* characters is a terminal candidate.
C2_OwnPunctuationInEffect ==
    \A t \in Threads :
        Finished(t, "tokenize") /\ call[t].outcome = Returned
        => /\ call[t].used_ext = resolver[t].external_punctuation
           /\ call[t].used_int = resolver[t].internal_punctuation
           /\ Range(call[t].used_ext)
                  \cap Range(resolver[t].internal_punctuation) = {}

C4_ReadOnceAtConstruction ==
    \A t \in Threads :
        /\ Finished(t, "init") /\ call[t].outcome = Returned
           => call[t].io.reads = 1
        /\ call[t].op = "tokenize" => call[t].io.reads = 0

\* C4 as amended: a construction reads nothing and only checks that the file
\* exists; a finished tokenize_sentences call on a string has read the artifact
\* exactly once, and it returned if and only if what it read was a loadable
\* pickle.
C4_ReadOncePerCall ==
    \A t \in Threads :
        /\ call[t].op = "init"
           => call[t].io.reads = 0 /\ call[t].io.checks <= 1
        /\ Finished(t, "tokenize") /\ isinstance_str(call[t].arg)
           => /\ call[t].io.reads = 1
              /\ call[t].outcome = Returned <=> call[t].seen.kind = "pickle"

C4_Witness ==
    \E t \in Threads :
        /\ Finished(t, "tokenize")
        /\ resolver[t].built_on.kind = "pickle"
        /\ call[t].seen.kind = "absent"
        /\ call[t].outcome = SystemExit1
        /\ call[t].io.reads = 1

\* C5: a call that fails on an absent artifact and a call that fails on an
\* artifact that cannot be deserialized end with different error outcomes.
C5_LoadFailuresDistinguishable ==
    \A t, u \in Threads :
        /\ Finished(t, "tokenize") /\ call[t].seen.kind = "absent"
        /\ Finished(u, "tokenize")
        /\ call[u].seen.kind \in {"garbage", "truncated"}
        => call[t].outcome # call[u].outcome

\* C6: a construction with a language that is no key of the registry after
\* lower-casing fails with the unsupported-language error, having made no
\* file-existence check and no file read, and builds no instance.
C6_UnsupportedLanguageNoAccess ==
    \A t \in Threads :
        call[t].op = "init" /\ Lower(call[t].arg.val) \notin DOMAIN PUNCTUATION
        => /\ call[t].outcome = UnsupportedLanguage
           /\ call[t].io = NoIO
           /\ call[t].seen = NotRead
           /\ resolver[t].exists => resolver[t].language # Lower(call[t].arg.val)

C6_Witness ==
    \E t \in Threads :
        /\ call[t].op = "init"
        /\ Lower(call[t].arg.val) \notin DOMAIN PUNCTUATION
        /\ call[t].outcome = UnsupportedLanguage

\* C7: a construction for a supported language, in any letter case, whose
\* artifact is absent fails with the missing-resource error, and no instance
\* exists whose artifact was absent when it was built.
C7_AbsentArtifactFailsConstruction ==
    \A t \in Threads :
        /\ resolver[t].exists => resolver[t].built_on.kind \notin {"absent", "notread"}
        /\ call[t].op = "init" /\ call[t].seen.kind = "absent"
           => call[t].outcome = DataNotAvailable
        /\ call[t].op = "init" /\ call[t].outcome = Returned
           => call[t].seen.kind \notin {"absent", "notread"}

C7_Witness ==
    \E t \in Threads :
        /\ call[t].op = "init"
        /\ call[t].arg.val # Lower(call[t].arg.val)
        /\ Lower(call[t].arg.val) \in DOMAIN PUNCTUATION
        /\ call[t].seen.kind = "absent"
        /\ call[t].outcome = DataNotAvailable
        /\ ~resolver[t].exists

\* C8: a tokenize_sentences call on a non-string reads no file and writes no
\* class attribute at any point, and ends with the invalid-input error.
C8_InvalidInputFailsFirst ==
    \A t \in Threads :
        call[t].op = "tokenize" /\ ~isinstance_str(call[t].arg)
        => /\ call[t].io = NoIO
           /\ call[t].pc \in {0, 1}
           /\ call[t].pc = 0 => call[t].outcome = MustBeString

C8_Witness ==
    \E t \in Threads :
        /\ Finished(t, "tokenize")
        /\ call[t].arg = Int42
        /\ call[t].outcome = MustBeString
        /\ PunktLanguageVars = PunktLanguageVarsDefault

\* C9: a finished tokenize_sentences call on the empty string that did not end
\* with a load failure of open_pickle has raised nothing and returned the empty
\* sequence.
C9_EmptyTextEmptyResult ==
    \A t \in Threads :
        /\ Finished(t, "tokenize")
        /\ call[t].arg = Str(<<>>)
        /\ call[t].outcome \notin {SystemExit1, EOFError}
        => call[t].outcome = Returned /\ call[t].result = <<>>

C9_Witness ==
    \E t \in Threads :
        /\ Finished(t, "tokenize")
        /\ call[t].arg = Str(<<>>)
        /\ call[t].seen.kind = "pickle"
        /\ call[t].outcome = Returned

\* C10: the registry keeps its initial value, its external and internal sets
\* are disjoint for each language, and every instance holds the external and
\* internal tuples of the registry entry of its lower-cased language.
C10_RegistryAndBinding ==
    /\ PUNCTUATION = PUNCTUATION_INIT
    /\ \A l \in DOMAIN PUNCTUATION :
           Range(PUNCTUATION[l].external) \cap Range(PUNCTUATION[l].internal) = {}
    /\ \A t \in Threads :
           resolver[t].exists
           => /\ resolver[t].language \in DOMAIN PUNCTUATION
              /\ resolver[t].external_punctuation
                     = PUNCTUATION[resolver[t].language].external
              /\ resolver[t].internal_punctuation
                     = PUNCTUATION[resolver[t].language].internal
    /\ \A t \in Threads :
           Finished(t, "init") /\ call[t].outcome = Returned
           => resolver[t].language = Lower(call[t].arg.val)

C10_Witness ==
    \E t \in Threads :
        /\ Finished(t, "init") /\ call[t].outcome = Returned
        /\ call[t].arg.val # latin
        /\ resolver[t].language = latin
        /\ \E u \in Threads : Finished(u, "tokenize") /\ call[u].outcome = Returned

====
